---- MODULE Spec2Model ----
(***************************************************************************)
(* n64js: the MIPS Interface (MI) interrupt controller and the Video       *)
(* Interface (VI) display-timing controller, with the CPU collaborator     *)
(* (interrupt line, vertical-blank event queue) they talk to.              *)
(***************************************************************************)
EXTENDS Integers, Sequences, FiniteSets, TLC

(* ------------------------------------------------------------------ *)
(* Bounds of the model                                                 *)
(* ------------------------------------------------------------------ *)
\* Bus values written to the MI interrupt-mask register, and to the MI mode
\* register, in the register-protocol specifications: 0 .. 2^bits - 1.
MaskWriteBits == 12
ModeWriteBits == 14
\* Number of operations after construction the journal records.
MaxJournal == 3
\* The vertical-sync values written in SpecSync include 0 .. MaxSmallSync.
MaxSmallSync == 2

(* ------------------------------------------------------------------ *)
(* MI constants (mi.js)                                                *)
(* ------------------------------------------------------------------ *)
MI_MODE_REG == 0
MI_VERSION_REG == 4
MI_INTR_REG == 8
MI_INTR_MASK_REG == 12

MI_CLR_INIT == 128
MI_SET_INIT == 256
MI_CLR_EBUS == 512
MI_SET_EBUS == 1024
MI_CLR_DP_INTR == 2048
MI_CLR_RDRAM == 4096
MI_SET_RDRAM == 8192

MI_MODE_INIT == 128
MI_MODE_EBUS == 256
MI_MODE_RDRAM == 512

MI_INTR_MASK_CLR_SP == 1
MI_INTR_MASK_SET_SP == 2
MI_INTR_MASK_CLR_SI == 4
MI_INTR_MASK_SET_SI == 8
MI_INTR_MASK_CLR_AI == 16
MI_INTR_MASK_SET_AI == 32
MI_INTR_MASK_CLR_VI == 64
MI_INTR_MASK_SET_VI == 128
MI_INTR_MASK_CLR_PI == 256
MI_INTR_MASK_SET_PI == 512
MI_INTR_MASK_CLR_DP == 1024
MI_INTR_MASK_SET_DP == 2048

MI_INTR_MASK_SP == 1
MI_INTR_MASK_SI == 2
MI_INTR_MASK_AI == 4
MI_INTR_MASK_VI == 8
MI_INTR_MASK_PI == 16
MI_INTR_MASK_DP == 32

MI_INTR_SP == 1
MI_INTR_SI == 2
MI_INTR_AI == 4
MI_INTR_VI == 8
MI_INTR_PI == 16
MI_INTR_DP == 32

\* reset(): the fixed pattern of the version register, 0x02020102
MI_VERSION_VALUE == 33685762

(* ------------------------------------------------------------------ *)
(* VI constants (vi.js)                                                *)
(* ------------------------------------------------------------------ *)
VI_CONTROL_REG == 0
VI_DRAM_ADDR_REG == 4
VI_H_WIDTH_REG == 8
VI_V_INTR_REG == 12
VI_V_CURRENT_LINE_REG == 16
VI_TIMING_REG == 20
VI_V_SYNC_REG == 24

VI_CTRL_SERRATE_ON == 64

VI_PAL_CLOCK == 49656530
VI_NTSC_CLOCK == 48681812
VI_MPAL_CLOCK == 48628316

\* system_constants.js (not part of the two files): the television standards
OS_TV_PAL == 0
OS_TV_NTSC == 1
OS_TV_MPAL == 2

\* hardware.mi_reg / hardware.vi_reg: the byte length of each register block
MI_REG_LENGTH == 16
VI_REG_LENGTH == 56

(* ------------------------------------------------------------------ *)
(* 32-bit bit operations on non-negative values                        *)
(* ------------------------------------------------------------------ *)
RECURSIVE BitAnd(_, _)
BitAnd(a, b) ==
  IF a = 0 \/ b = 0 THEN 0
  ELSE (a % 2) * (b % 2) + 2 * BitAnd(a \div 2, b \div 2)

RECURSIVE BitOr(_, _)
BitOr(a, b) ==
  IF a = 0 THEN b
  ELSE IF b = 0 THEN a
  ELSE (IF a % 2 = 1 \/ b % 2 = 1 THEN 1 ELSE 0) + 2 * BitOr(a \div 2, b \div 2)

\* a & ~b
BitClear(a, b) == a - BitAnd(a, b)

RECURSIVE Pow2(_)
Pow2(n) == IF n = 0 THEN 1 ELSE 2 * Pow2(n - 1)

\* (a >>> k) for a non-negative a
ShiftRight(a, k) == a \div Pow2(k)

(* ------------------------------------------------------------------ *)
(* State                                                               *)
(* ------------------------------------------------------------------ *)
VARIABLES
  mi_reg,            \* hardware.mi_reg: MI register block, word offset -> value
  vi_reg,            \* hardware.vi_reg: VI register block, word offset -> value
  tvType,            \* hardware.rominfo.tvType
  field,             \* VIRegDevice.field
  clock,             \* VIRegDevice.clock
  refreshRate,       \* VIRegDevice.refreshRate
  countPerScanline,  \* VIRegDevice.countPerScanline
  countPerVbl,       \* VIRegDevice.countPerVbl
  events,            \* cpu0: cycles left of each pending vertical-blank event
  cause3,            \* cpu0: the interrupt line as of the last updateCause3()
  last,              \* observer: the operation that produced this state
  journal            \* observer: the first operations after construction

vars == <<mi_reg, vi_reg, tvType, field, clock, refreshRate, countPerScanline,
          countPerVbl, events, cause3, last, journal>>

miVars == <<mi_reg, cause3>>
viVars == <<vi_reg, tvType, field, clock, refreshRate, countPerScanline, countPerVbl>>

MIRegs == {MI_MODE_REG, MI_VERSION_REG, MI_INTR_REG, MI_INTR_MASK_REG}
VIRegs == {4 * i : i \in 0 .. (VI_REG_LENGTH \div 4) - 1}

(* ------------------------------------------------------------------ *)
(* Register block (MemoryRegion)                                       *)
(* ------------------------------------------------------------------ *)
\* A width-4 access is accepted at the word offsets of the block.
MemAccessOk(mem, off) == off \in DOMAIN mem

write32(mem, off, value) == [mem EXCEPT ![off] = value]

setBits32(mem, off, bits) == [mem EXCEPT ![off] = BitOr(mem[off], bits)]

clearBits32(mem, off, bits) == [mem EXCEPT ![off] = BitClear(mem[off], bits)]

(* ------------------------------------------------------------------ *)
(* Observer records                                                    *)
(* ------------------------------------------------------------------ *)
\* op: the operation; ea/value: its arguments; before: the content of the
\* register it addresses when it began; threw: it raised an error;
\* notified: calls of cpu0.updateCause3(); scheduled: the delays handed to
\* cpu0.addVblEvent(); presented: calls of presentBackBuffer(); result: the
\* value a read returned.
Op(op, ea, value, before, threw, notified, scheduled, presented, result) ==
  [op |-> op, ea |-> ea, value |-> value, before |-> before, threw |-> threw,
   notified |-> notified, scheduled |-> scheduled, presented |-> presented,
   result |-> result]

Content(mem, ea) == IF ea \in DOMAIN mem THEN mem[ea] ELSE 0

Record(rec) ==
  /\ last' = rec
  /\ journal' = IF journal.on /\ Len(journal.ops) < MaxJournal
                THEN [journal EXCEPT !.ops = Append(journal.ops, rec)]
                ELSE [on |-> FALSE, ops |-> <<>>]

(* ------------------------------------------------------------------ *)
(* MI controller                                                       *)
(* ------------------------------------------------------------------ *)
Has(value, bit) == BitAnd(value, bit) # 0

interruptsUnmasked(mi) == BitAnd(mi[MI_INTR_MASK_REG], mi[MI_INTR_REG]) # 0

intrReg(mi) == mi[MI_INTR_REG]

intrMaskReg(mi) == mi[MI_INTR_MASK_REG]

\* cpu0.updateCause3(): the CPU recomputes its interrupt line from the MI
\* registers; n is the number of calls an operation made (0 or more).
updateCause3(mi, n) == IF n > 0 THEN interruptsUnmasked(mi) ELSE cause3

\* setInterruptBit that notifies the CPU only when the interrupt is unmasked
setInterruptBit_NotifyIfUnmasked(mi, bit) ==
  LET raised == setBits32(mi, MI_INTR_REG, bit)
  IN  [mi |-> raised, notified |-> IF interruptsUnmasked(raised) THEN 1 ELSE 0]

setInterruptBit(mi, bit) ==
  [mi |-> setBits32(mi, MI_INTR_REG, bit), notified |-> 1]

\* writeModeReg with each flag's clear applied before its set
writeModeReg_SetWins(mi, value) ==
  LET m0 == mi[MI_MODE_REG]
      m1 == IF Has(value, MI_CLR_RDRAM) THEN BitClear(m0, MI_MODE_RDRAM) ELSE m0
      m2 == IF Has(value, MI_SET_RDRAM) THEN BitOr(m1, MI_MODE_RDRAM) ELSE m1
      m3 == IF Has(value, MI_CLR_INIT) THEN BitClear(m2, MI_MODE_INIT) ELSE m2
      m4 == IF Has(value, MI_SET_INIT) THEN BitOr(m3, MI_MODE_INIT) ELSE m3
      m5 == IF Has(value, MI_CLR_EBUS) THEN BitClear(m4, MI_MODE_EBUS) ELSE m4
      m6 == IF Has(value, MI_SET_EBUS) THEN BitOr(m5, MI_MODE_EBUS) ELSE m5
      stored == write32(mi, MI_MODE_REG, m6)
  IN  IF Has(value, MI_CLR_DP_INTR)
      THEN [mi |-> clearBits32(stored, MI_INTR_REG, MI_INTR_DP), notified |-> 1]
      ELSE [mi |-> stored, notified |-> 0]

writeModeReg(mi, value) ==
  LET m0 == mi[MI_MODE_REG]
      m1 == IF Has(value, MI_SET_RDRAM) THEN BitOr(m0, MI_MODE_RDRAM) ELSE m0
      m2 == IF Has(value, MI_CLR_RDRAM) THEN BitClear(m1, MI_MODE_RDRAM) ELSE m1
      m3 == IF Has(value, MI_SET_INIT) THEN BitOr(m2, MI_MODE_INIT) ELSE m2
      m4 == IF Has(value, MI_CLR_INIT) THEN BitClear(m3, MI_MODE_INIT) ELSE m3
      m5 == IF Has(value, MI_SET_EBUS) THEN BitOr(m4, MI_MODE_EBUS) ELSE m4
      m6 == IF Has(value, MI_CLR_EBUS) THEN BitClear(m5, MI_MODE_EBUS) ELSE m5
      stored == write32(mi, MI_MODE_REG, m6)
  IN  IF Has(value, MI_CLR_DP_INTR)
      THEN [mi |-> clearBits32(stored, MI_INTR_REG, MI_INTR_DP), notified |-> 1]
      ELSE [mi |-> stored, notified |-> 0]

\* the six CLR_x bits of a written value, each moved to its source's bit
maskClr(value) ==
  LET c0 == ShiftRight(BitAnd(value, MI_INTR_MASK_CLR_SP), 0)
      c1 == BitOr(c0, ShiftRight(BitAnd(value, MI_INTR_MASK_CLR_SI), 1))
      c2 == BitOr(c1, ShiftRight(BitAnd(value, MI_INTR_MASK_CLR_AI), 2))
      c3 == BitOr(c2, ShiftRight(BitAnd(value, MI_INTR_MASK_CLR_VI), 3))
      c4 == BitOr(c3, ShiftRight(BitAnd(value, MI_INTR_MASK_CLR_PI), 4))
  IN  BitOr(c4, ShiftRight(BitAnd(value, MI_INTR_MASK_CLR_DP), 5))

\* the six SET_x bits of a written value, each moved to its source's bit
maskSet(value) ==
  LET s0 == ShiftRight(BitAnd(value, MI_INTR_MASK_SET_SP), 1)
      s1 == BitOr(s0, ShiftRight(BitAnd(value, MI_INTR_MASK_SET_SI), 2))
      s2 == BitOr(s1, ShiftRight(BitAnd(value, MI_INTR_MASK_SET_AI), 3))
      s3 == BitOr(s2, ShiftRight(BitAnd(value, MI_INTR_MASK_SET_VI), 4))
      s4 == BitOr(s3, ShiftRight(BitAnd(value, MI_INTR_MASK_SET_PI), 5))
  IN  BitOr(s4, ShiftRight(BitAnd(value, MI_INTR_MASK_SET_DP), 6))

\* writeIntrMaskReg with the set vector applied before the clear vector
writeIntrMaskReg_ClearWins(mi, value) ==
  LET mi_intr_reg == mi[MI_INTR_REG]
      raised == BitOr(mi[MI_INTR_MASK_REG], maskSet(value))
      mi_intr_mask_reg == BitClear(raised, maskClr(value))
  IN  [mi |-> write32(mi, MI_INTR_MASK_REG, mi_intr_mask_reg),
       notified |-> IF BitAnd(mi_intr_mask_reg, mi_intr_reg) # 0 THEN 1 ELSE 0]

\* writeIntrMaskReg that notifies the CPU after every write
writeIntrMaskReg_AlwaysNotifies(mi, value) ==
  LET cleared == BitClear(mi[MI_INTR_MASK_REG], maskClr(value))
      mi_intr_mask_reg == BitOr(cleared, maskSet(value))
  IN  [mi |-> write32(mi, MI_INTR_MASK_REG, mi_intr_mask_reg), notified |-> 1]

writeIntrMaskReg(mi, value) ==
  LET mi_intr_reg == mi[MI_INTR_REG]
      cleared == BitClear(mi[MI_INTR_MASK_REG], maskClr(value))
      mi_intr_mask_reg == BitOr(cleared, maskSet(value))
  IN  [mi |-> write32(mi, MI_INTR_MASK_REG, mi_intr_mask_reg),
       notified |-> IF BitAnd(mi_intr_mask_reg, mi_intr_reg) # 0 THEN 1 ELSE 0]

\* write32 without the read-only case: a write to the version or to the
\* interrupt-pending register falls through to the default store
MIWrite32Effect_StoresReadOnly(mi, ea, value) ==
  IF ea + 4 > MI_REG_LENGTH
  THEN [mi |-> mi, notified |-> 0, threw |-> TRUE]
  ELSE IF ea = MI_MODE_REG
  THEN [threw |-> FALSE] @@ writeModeReg(mi, value)
  ELSE IF ea = MI_INTR_MASK_REG
  THEN [threw |-> FALSE] @@ writeIntrMaskReg(mi, value)
  ELSE IF MemAccessOk(mi, ea)
  THEN [mi |-> write32(mi, ea, value), notified |-> 0, threw |-> FALSE]
  ELSE [mi |-> mi, notified |-> 0, threw |-> TRUE]

\* MIRegDevice.write32: the effect of a bus write, as
\* [mi: the register block afterwards, notified, threw]
MIWrite32Effect(mi, ea, value) ==
  IF ea + 4 > MI_REG_LENGTH
  THEN [mi |-> mi, notified |-> 0, threw |-> TRUE]
  ELSE IF ea = MI_MODE_REG
  THEN [threw |-> FALSE] @@ writeModeReg(mi, value)
  ELSE IF ea = MI_INTR_MASK_REG
  THEN [threw |-> FALSE] @@ writeIntrMaskReg(mi, value)
  ELSE IF ea \in {MI_VERSION_REG, MI_INTR_REG}
  THEN [mi |-> mi, notified |-> 0, threw |-> FALSE]
  ELSE IF MemAccessOk(mi, ea)
  THEN [mi |-> write32(mi, ea, value), notified |-> 0, threw |-> FALSE]
  ELSE [mi |-> mi, notified |-> 0, threw |-> TRUE]

MI_write32(ea, value) ==
  \E e \in {MIWrite32Effect(mi_reg, ea, value)} :
      /\ mi_reg' = e.mi
      /\ cause3' = updateCause3(e.mi, e.notified)
      /\ UNCHANGED <<viVars, events>>
      /\ Record(Op("MI.write32", ea, value, Content(mi_reg, ea), e.threw, e.notified,
                <<>>, 0, 0))

MI_setInterruptBit(name, bit) ==
  \E e \in {setInterruptBit(mi_reg, bit)} :
      /\ mi_reg' = e.mi
      /\ cause3' = updateCause3(e.mi, e.notified)
      /\ UNCHANGED <<viVars, events>>
      /\ Record(Op(name, MI_INTR_REG, bit, mi_reg[MI_INTR_REG], FALSE, e.notified,
                <<>>, 0, 0))

interruptSP == MI_setInterruptBit("interruptSP", MI_INTR_SP)

interruptDP == MI_setInterruptBit("interruptDP", MI_INTR_DP)

\* Device.readS32, which MIRegDevice inherits: [result, threw]
MIReadS32Effect(mi, ea) ==
  IF ea + 4 > MI_REG_LENGTH \/ ~MemAccessOk(mi, ea)
  THEN [result |-> 0, threw |-> TRUE]
  ELSE [result |-> mi[ea], threw |-> FALSE]

MI_readS32(ea) ==
  \E e \in {MIReadS32Effect(mi_reg, ea)} :
      /\ UNCHANGED <<mi_reg, cause3, viVars, events>>
      /\ Record(Op("MI.readS32", ea, 0, Content(mi_reg, ea), e.threw, 0, <<>>, 0,
                e.result))

(* ------------------------------------------------------------------ *)
(* CPU collaborator: the vertical-blank event queue (cpu0)             *)
(* ------------------------------------------------------------------ *)
hasVblEvent(ev) == Len(ev) > 0

addVblEvent(ev, count) == Append(ev, count)

RECURSIVE MinOf(_)
MinOf(ev) ==
  IF Len(ev) = 1 THEN ev[1]
  ELSE LET m == MinOf(Tail(ev)) IN IF ev[1] <= m THEN ev[1] ELSE m

\* cycles until the next vertical-blank event; 0 when none is queued
getVblCount(ev) == IF ev = <<>> THEN 0 ELSE MinOf(ev)

\* the queue with its i-th event taken out (a one-shot event leaves the
\* queue when it fires)
RemoveAt(ev, i) == SubSeq(ev, 1, i - 1) \o SubSeq(ev, i + 1, Len(ev))

(* ------------------------------------------------------------------ *)
(* VI controller                                                       *)
(* ------------------------------------------------------------------ *)
\* videoClockForTVType without the MPAL case
videoClockForTVType_MpalAsNtsc(tv) ==
  IF tv = OS_TV_PAL THEN VI_PAL_CLOCK
  ELSE VI_NTSC_CLOCK

videoClockForTVType(tv) ==
  IF tv = OS_TV_PAL THEN VI_PAL_CLOCK
  ELSE IF tv = OS_TV_NTSC THEN VI_NTSC_CLOCK
  ELSE IF tv = OS_TV_MPAL THEN VI_MPAL_CLOCK
  ELSE VI_NTSC_CLOCK

\* refreshRateForTVType that gives the PAL rate for every standard
refreshRateForTVType_Always50(tv) == 50

refreshRateForTVType(tv) == IF tv = OS_TV_PAL THEN 50 ELSE 60

\* (a / b) >> 0 for b >= 0: the real quotient truncated toward zero; a
\* division by zero gives an infinity or NaN, which >> 0 turns into 0.
TruncDiv(a, b) ==
  IF b = 0 THEN 0
  ELSE IF a >= 0 THEN a \div b
  ELSE -((-a) \div b)

\* ((clock / refreshRate) / scanlines) >> 0.  The operands are positive
\* integers, so truncating the real quotient clk / (rate * scanlines) equals
\* dividing in two integer steps.
scanlineCycles(clk, rate, scanlines) == TruncDiv(TruncDiv(clk, rate), scanlines)

interlaced(vi) == IF Has(vi[VI_CONTROL_REG], VI_CTRL_SERRATE_ON) THEN 1 ELSE 0

\* field ^ interlaced on single bits
fieldAfterVbl(f, vi) == (f + interlaced(vi)) % 2

\* initInterrupt that also arms when the interrupt line equals the sync value
initInterrupt_GateInclusive(ev, vi, perVbl) ==
  IF hasVblEvent(ev) THEN <<>>
  ELSE IF vi[VI_V_INTR_REG] > vi[VI_V_SYNC_REG] THEN <<>>
  ELSE <<perVbl>>

\* initInterrupt without the check for an event already pending
initInterrupt_NoPendingCheck(ev, vi, perVbl) ==
  IF vi[VI_V_INTR_REG] >= vi[VI_V_SYNC_REG] THEN <<>>
  ELSE <<perVbl>>

\* initInterrupt(): the delays it hands to cpu0.addVblEvent()
initInterrupt(ev, vi, perVbl) ==
  IF hasVblEvent(ev) THEN <<>>
  ELSE IF vi[VI_V_INTR_REG] >= vi[VI_V_SYNC_REG] THEN <<>>
  ELSE <<perVbl>>

\* writeVSync with the scanline count taken to be the written value
writeVSync_ScanlinesIsValue(ev, vi, value, clk, rate, perScanline, perVbl) ==
  LET lastSync == vi[VI_V_SYNC_REG]
      scanlines == value
      newPerScanline == scanlineCycles(clk, rate, scanlines)
      newPerVbl == scanlines * newPerScanline
      stored == write32(vi, VI_V_SYNC_REG, value)
  IN  IF lastSync # value
      THEN [vi |-> stored, perScanline |-> newPerScanline, perVbl |-> newPerVbl,
            scheduled |-> initInterrupt(ev, stored, newPerVbl)]
      ELSE [vi |-> vi, perScanline |-> perScanline, perVbl |-> perVbl,
            scheduled |-> <<>>]

\* writeVSync without the comparison with the stored value
writeVSync_Unconditional(ev, vi, value, clk, rate, perScanline, perVbl) ==
  LET scanlines == value + 1
      newPerScanline == scanlineCycles(clk, rate, scanlines)
      newPerVbl == scanlines * newPerScanline
      stored == write32(vi, VI_V_SYNC_REG, value)
  IN  [vi |-> stored, perScanline |-> newPerScanline, perVbl |-> newPerVbl,
       scheduled |-> initInterrupt(ev, stored, newPerVbl)]

\* the VI_V_SYNC_REG case of write32: [vi, perScanline, perVbl, scheduled]
writeVSync(ev, vi, value, clk, rate, perScanline, perVbl) ==
  LET lastSync == vi[VI_V_SYNC_REG]
      scanlines == value + 1
      newPerScanline == scanlineCycles(clk, rate, scanlines)
      newPerVbl == scanlines * newPerScanline
      stored == write32(vi, VI_V_SYNC_REG, value)
  IN  IF lastSync # value
      THEN [vi |-> stored, perScanline |-> newPerScanline, perVbl |-> newPerVbl,
            scheduled |-> initInterrupt(ev, stored, newPerVbl)]
      ELSE [vi |-> vi, perScanline |-> perScanline, perVbl |-> perVbl,
            scheduled |-> <<>>]

\* the VI_V_CURRENT_LINE_REG case of write32 with the value stored as well
writeCurrentLine_StoresValue(vi, mi, value) ==
  [vi |-> write32(vi, VI_V_CURRENT_LINE_REG, value),
   mi |-> clearBits32(mi, MI_INTR_REG, MI_INTR_VI), notified |-> 1]

\* the VI_V_CURRENT_LINE_REG case of write32: [vi, mi, notified]
writeCurrentLine(vi, mi, value) ==
  [vi |-> vi, mi |-> clearBits32(mi, MI_INTR_REG, MI_INTR_VI), notified |-> 1]

\* write32 whose VI_V_INTR_REG case stores the value without calling
\* initInterrupt()
VIWrite32Effect_IntrWriteOnlyStores(ev, vi, mi, ea, value, clk, rate, perScanline, perVbl) ==
  LET same == [vi |-> vi, mi |-> mi, perScanline |-> perScanline, perVbl |-> perVbl,
               scheduled |-> <<>>, notified |-> 0, threw |-> FALSE]
  IN  IF ea + 4 > VI_REG_LENGTH
      THEN [same EXCEPT !.threw = TRUE]
      ELSE IF ea \in {VI_DRAM_ADDR_REG, VI_CONTROL_REG, VI_H_WIDTH_REG, VI_V_INTR_REG}
      THEN [same EXCEPT !.vi = write32(vi, ea, value)]
      ELSE IF ea = VI_V_CURRENT_LINE_REG
      THEN LET w == writeCurrentLine(vi, mi, value)
           IN  [same EXCEPT !.vi = w.vi, !.mi = w.mi, !.notified = w.notified]
      ELSE IF ea = VI_V_SYNC_REG
      THEN LET w == writeVSync(ev, vi, value, clk, rate, perScanline, perVbl)
           IN  [same EXCEPT !.vi = w.vi, !.perScanline = w.perScanline,
                            !.perVbl = w.perVbl, !.scheduled = w.scheduled]
      ELSE IF MemAccessOk(vi, ea)
      THEN [same EXCEPT !.vi = write32(vi, ea, value)]
      ELSE [same EXCEPT !.threw = TRUE]

\* VIRegDevice.write32: the effect of a bus write, as
\* [vi, mi, perScanline, perVbl, scheduled, notified, threw]
VIWrite32Effect(ev, vi, mi, ea, value, clk, rate, perScanline, perVbl) ==
  LET same == [vi |-> vi, mi |-> mi, perScanline |-> perScanline, perVbl |-> perVbl,
               scheduled |-> <<>>, notified |-> 0, threw |-> FALSE]
  IN  IF ea + 4 > VI_REG_LENGTH
      THEN [same EXCEPT !.threw = TRUE]
      ELSE IF ea \in {VI_DRAM_ADDR_REG, VI_CONTROL_REG, VI_H_WIDTH_REG}
      THEN [same EXCEPT !.vi = write32(vi, ea, value)]
      ELSE IF ea = VI_V_INTR_REG
      THEN LET stored == write32(vi, ea, value)
           IN  [same EXCEPT !.vi = stored,
                            !.scheduled = initInterrupt(ev, stored, perVbl)]
      ELSE IF ea = VI_V_CURRENT_LINE_REG
      THEN LET w == writeCurrentLine(vi, mi, value)
           IN  [same EXCEPT !.vi = w.vi, !.mi = w.mi, !.notified = w.notified]
      ELSE IF ea = VI_V_SYNC_REG
      THEN LET w == writeVSync(ev, vi, value, clk, rate, perScanline, perVbl)
           IN  [same EXCEPT !.vi = w.vi, !.perScanline = w.perScanline,
                            !.perVbl = w.perVbl, !.scheduled = w.scheduled]
      ELSE IF MemAccessOk(vi, ea)
      THEN [same EXCEPT !.vi = write32(vi, ea, value)]
      ELSE [same EXCEPT !.threw = TRUE]

VI_write32(ea, value) ==
  \E e \in {VIWrite32Effect(events, vi_reg, mi_reg, ea, value, clock, refreshRate,
                          countPerScanline, countPerVbl)} :
      /\ vi_reg' = e.vi
      /\ mi_reg' = e.mi
      /\ countPerScanline' = e.perScanline
      /\ countPerVbl' = e.perVbl
      /\ events' = events \o e.scheduled
      /\ cause3' = updateCause3(e.mi, e.notified)
      /\ UNCHANGED <<tvType, field, clock, refreshRate>>
      /\ Record(Op("VI.write32", ea, value, Content(vi_reg, ea), e.threw, e.notified,
                e.scheduled, 0, 0))

\* the VI_V_CURRENT_LINE_REG case of readS32: the value computed
currentLine(ev, vi, f, perScanline, perVbl) ==
  LET cyclesToNextVbl == getVblCount(ev)
      countExecuted == perVbl - cyclesToNextVbl
      scanline == TruncDiv(countExecuted, perScanline)
      sync == vi[VI_V_SYNC_REG]
      wrapped == IF scanline >= sync THEN scanline - sync ELSE scanline
  IN  \* (value & ~1) | field, on the two's-complement value
      (wrapped - (wrapped % 2)) + f

\* readS32 that reduces the offset modulo the block length instead of
\* refusing an offset beyond it
VIReadS32Effect_WrapsOffset(ev, vi, ea, f, perScanline, perVbl) ==
  LET o == ea % VI_REG_LENGTH
  IN  IF ~MemAccessOk(vi, o)
      THEN [vi |-> vi, result |-> 0, threw |-> TRUE]
      ELSE LET after == IF o = VI_V_CURRENT_LINE_REG
                        THEN write32(vi, o, currentLine(ev, vi, f, perScanline, perVbl))
                        ELSE vi
           IN  [vi |-> after, result |-> after[o], threw |-> FALSE]

\* VIRegDevice.readS32: [vi, result, threw]
VIReadS32Effect(ev, vi, ea, f, perScanline, perVbl) ==
  IF ea + 4 > VI_REG_LENGTH \/ ~MemAccessOk(vi, ea)
  THEN [vi |-> vi, result |-> 0, threw |-> TRUE]
  ELSE LET after == IF ea = VI_V_CURRENT_LINE_REG
                    THEN write32(vi, ea, currentLine(ev, vi, f, perScanline, perVbl))
                    ELSE vi
       IN  [vi |-> after, result |-> after[ea], threw |-> FALSE]

VI_readS32(ea) ==
  \E e \in {VIReadS32Effect(events, vi_reg, ea, field, countPerScanline,
                          countPerVbl)} :
      /\ vi_reg' = e.vi
      /\ UNCHANGED <<mi_reg, cause3, tvType, field, clock, refreshRate,
                     countPerScanline, countPerVbl, events>>
      /\ Record(Op("VI.readS32", ea, 0, Content(vi_reg, ea), e.threw, 0, <<>>, 0,
                e.result))

\* verticalBlank that requests the next callback through initInterrupt(),
\* so only while the interrupt line is below the sync value
verticalBlank_RearmsThroughGate ==
  \E i \in 1 .. Len(events) :
    /\ events[i] = 0
    /\ LET mi == setBits32(mi_reg, MI_INTR_REG, MI_INTR_VI)
           scheduled == initInterrupt(RemoveAt(events, i), vi_reg, countPerVbl)
       IN  /\ field' = fieldAfterVbl(field, vi_reg)
           /\ events' = RemoveAt(events, i) \o scheduled
           /\ mi_reg' = mi
           /\ cause3' = updateCause3(mi, 1)
           /\ UNCHANGED <<vi_reg, tvType, clock, refreshRate, countPerScanline,
                          countPerVbl>>
           /\ Record(Op("verticalBlank", MI_INTR_REG, MI_INTR_VI, mi_reg[MI_INTR_REG],
                     FALSE, 1, scheduled, 1, 0))

\* verticalBlank that requests no next callback
verticalBlank_NoRearm ==
  \E i \in 1 .. Len(events) :
    /\ events[i] = 0
    /\ LET mi == setBits32(mi_reg, MI_INTR_REG, MI_INTR_VI)
       IN  /\ field' = fieldAfterVbl(field, vi_reg)
           /\ events' = RemoveAt(events, i)
           /\ mi_reg' = mi
           /\ cause3' = updateCause3(mi, 1)
           /\ UNCHANGED <<vi_reg, tvType, clock, refreshRate, countPerScanline,
                          countPerVbl>>
           /\ Record(Op("verticalBlank", MI_INTR_REG, MI_INTR_VI, mi_reg[MI_INTR_REG],
                     FALSE, 1, <<>>, 1, 0))

\* VIRegDevice.verticalBlank(), called back by cpu0 when a vertical-blank
\* event is due; the event that fired has left the queue.
verticalBlank ==
  \E i \in 1 .. Len(events) :
    /\ events[i] = 0
    /\ LET mi == setBits32(mi_reg, MI_INTR_REG, MI_INTR_VI)
       IN  /\ field' = fieldAfterVbl(field, vi_reg)
           /\ events' = addVblEvent(RemoveAt(events, i), countPerVbl)
           /\ mi_reg' = mi
           /\ cause3' = updateCause3(mi, 1)
           /\ UNCHANGED <<vi_reg, tvType, clock, refreshRate, countPerScanline,
                          countPerVbl>>
           /\ Record(Op("verticalBlank", MI_INTR_REG, MI_INTR_VI, mi_reg[MI_INTR_REG],
                     FALSE, 1, <<countPerVbl>>, 1, 0))

\* cpu0 executes d cycles, short of or up to the next event: every queued
\* event comes d cycles closer.
runCycles(d) ==
  /\ events # <<>>
  /\ d > 0
  /\ d <= getVblCount(events)
  /\ events' = [i \in 1 .. Len(events) |-> events[i] - d]
  /\ UNCHANGED <<mi_reg, cause3, viVars>>
  /\ Record(Op("runCycles", 0, d, 0, FALSE, 0, <<>>, 0, 0))

(* ------------------------------------------------------------------ *)
(* Construction                                                        *)
(* ------------------------------------------------------------------ *)
\* The controllers and the CPU in a running state: no operation yet
\* observed, no event queued.
Started(tv, mi, vi, journalOn) ==
  /\ tvType = tv
  /\ mi_reg = mi
  /\ vi_reg = vi
  /\ field = 0
  /\ clock = videoClockForTVType(tv)
  /\ refreshRate = refreshRateForTVType(tv)
  /\ countPerScanline = 0
  /\ countPerVbl = 0
  /\ events = <<>>
  /\ cause3 = interruptsUnmasked(mi)
  /\ last = Op("construct", 0, tv, 0, FALSE, 0, <<>>, 0, 0)
  /\ journal = [on |-> journalOn, ops |-> <<>>]

\* Register blocks start zeroed; MIRegDevice.reset() stores the version,
\* VIRegDevice's constructor and reset() set the clock, the refresh rate
\* and the two cycle counts.
FreshMI == write32([r \in MIRegs |-> 0], MI_VERSION_REG, MI_VERSION_VALUE)

FreshVI == [r \in VIRegs |-> 0]

Constructed(tv, journalOn) == Started(tv, FreshMI, FreshVI, journalOn)

(* ------------------------------------------------------------------ *)
(* Spec: the display-timing controller under bus traffic and vertical  *)
(* blanks, with the MI controller's VI source                          *)
(* ------------------------------------------------------------------ *)
\* VI_V_INTR_REG - 2 is an offset inside the block that is not a word offset
VIAddresses ==
  {VI_CONTROL_REG, VI_V_INTR_REG - 2, VI_V_INTR_REG, VI_V_CURRENT_LINE_REG,
   VI_TIMING_REG, VI_V_SYNC_REG, VI_REG_LENGTH}

VIValues(ea) ==
  IF ea = VI_CONTROL_REG THEN {0, VI_CTRL_SERRATE_ON}
  ELSE IF ea = VI_V_INTR_REG THEN {0, 2, 600}
  ELSE IF ea = VI_V_SYNC_REG THEN {0, 524, 1000000}
  ELSE {5}

\* The CPU runs to the next event, or to the middle of a frame that has
\* just begun.
CycleSteps(ev) ==
  LET r == getVblCount(ev)
  IN  {d \in {r, r \div 2} : d > 0 /\ (d = r \/ r = countPerVbl)}

Init == Constructed(OS_TV_NTSC, FALSE)

Next ==
  \/ \E ea \in VIAddresses : \E value \in VIValues(ea) : VI_write32(ea, value)
  \/ \E value \in {MI_INTR_MASK_SET_VI, MI_INTR_MASK_CLR_VI} :
       MI_write32(MI_INTR_MASK_REG, value)
  \/ verticalBlank
  \/ \E d \in CycleSteps(events) : runCycles(d)

Spec == Init /\ [][Next]_vars

(* ------------------------------------------------------------------ *)
(* SpecMI: the interrupt controller under bus writes and raised        *)
(* interrupts, with the VI acknowledge and the vertical blank          *)
(* ------------------------------------------------------------------ *)
MIAddresses == MIRegs \cup {MI_REG_LENGTH}

MIValues(ea) ==
  IF ea = MI_MODE_REG
  THEN {MI_SET_INIT, MI_SET_INIT + MI_CLR_INIT, MI_CLR_DP_INTR}
  ELSE IF ea = MI_INTR_MASK_REG
  THEN {MI_INTR_MASK_SET_VI, MI_INTR_MASK_CLR_VI,
        MI_INTR_MASK_SET_VI + MI_INTR_MASK_CLR_VI,
        MI_INTR_MASK_SET_DP, MI_INTR_MASK_CLR_DP + MI_INTR_MASK_SET_SP,
        MI_INTR_MASK_CLR_SP}
  ELSE {0, 5}

NextMI ==
  \/ \E ea \in MIAddresses : \E value \in MIValues(ea) : MI_write32(ea, value)
  \/ interruptSP
  \/ interruptDP
  \/ VI_write32(VI_V_SYNC_REG, 524)
  \/ \E value \in {0, 5} : VI_write32(VI_V_CURRENT_LINE_REG, value)
  \/ verticalBlank
  \/ runCycles(getVblCount(events))

SpecMI == Init /\ [][NextMI]_vars

(* ------------------------------------------------------------------ *)
(* SpecMaskWrite: one bus write to the MI interrupt-mask register, from  *)
(* every mask                                                          *)
(* ------------------------------------------------------------------ *)
MaskWriteValues == 0 .. Pow2(MaskWriteBits) - 1

InitMaskWrite ==
  \E mask \in 0 .. 63 :
    Started(OS_TV_NTSC,
            [FreshMI EXCEPT ![MI_INTR_MASK_REG] = mask,
                            ![MI_INTR_REG] = MI_INTR_SP + MI_INTR_VI],
            FreshVI, FALSE)

NextMaskWrite ==
  /\ last.op = "construct"
  /\ \E value \in MaskWriteValues : MI_write32(MI_INTR_MASK_REG, value)

SpecMaskWrite == InitMaskWrite /\ [][NextMaskWrite]_vars

\* the six interrupt sources: mask bit, CLR_x and SET_x bits
MaskSources ==
  { [bit |-> MI_INTR_MASK_SP, clr |-> MI_INTR_MASK_CLR_SP, set |-> MI_INTR_MASK_SET_SP],
    [bit |-> MI_INTR_MASK_SI, clr |-> MI_INTR_MASK_CLR_SI, set |-> MI_INTR_MASK_SET_SI],
    [bit |-> MI_INTR_MASK_AI, clr |-> MI_INTR_MASK_CLR_AI, set |-> MI_INTR_MASK_SET_AI],
    [bit |-> MI_INTR_MASK_VI, clr |-> MI_INTR_MASK_CLR_VI, set |-> MI_INTR_MASK_SET_VI],
    [bit |-> MI_INTR_MASK_PI, clr |-> MI_INTR_MASK_CLR_PI, set |-> MI_INTR_MASK_SET_PI],
    [bit |-> MI_INTR_MASK_DP, clr |-> MI_INTR_MASK_CLR_DP, set |-> MI_INTR_MASK_SET_DP] }

\* the bit of x at the position of the single-bit value b
BitOf(x, b) == (x \div b) % 2

IsMaskWrite == last.op = "MI.write32" /\ last.ea = MI_INTR_MASK_REG /\ ~last.threw

\* C1: after a write of any value to the interrupt-mask register, from any
\* prior mask, each source's mask bit is 1 if the value has its SET bit, else
\* 0 if the value has its CLR bit, else what it was (set wins over clear),
\* and no other bit of the mask changes: mask = (mask AND NOT clear) OR set.
C1_MaskWriteSetWins ==
  IsMaskWrite =>
    /\ \A x \in MaskSources :
         BitOf(mi_reg[MI_INTR_MASK_REG], x.bit) =
           IF BitOf(last.value, x.set) = 1 THEN 1
           ELSE IF BitOf(last.value, x.clr) = 1 THEN 0
           ELSE BitOf(last.before, x.bit)
    /\ mi_reg[MI_INTR_MASK_REG] \div 64 = last.before \div 64

\* a write naming VI in both its clear and its set bit, from a mask without
\* VI, has left VI set; SP, named in neither, kept its bit
C1_Witness ==
  /\ IsMaskWrite
  /\ last.value = MI_INTR_MASK_CLR_VI + MI_INTR_MASK_SET_VI
  /\ BitOf(last.before, MI_INTR_MASK_VI) = 0
  /\ BitOf(last.before, MI_INTR_MASK_SP) = 1
  /\ mi_reg[MI_INTR_MASK_REG] = last.before + MI_INTR_MASK_VI

(* ------------------------------------------------------------------ *)
(* SpecModeWrite: one bus write to the MI mode register, from every    *)
(* combination of mode flags                                           *)
(* ------------------------------------------------------------------ *)
ModeWriteValues == 0 .. Pow2(ModeWriteBits) - 1

ModeFlagSets ==
  {r + i + e : r \in {0, MI_MODE_RDRAM}, i \in {0, MI_MODE_INIT}, e \in {0, MI_MODE_EBUS}}

InitModeWrite ==
  \E mode \in ModeFlagSets : \E pending \in {0, MI_INTR_DP + MI_INTR_VI} :
    Started(OS_TV_NTSC,
            [FreshMI EXCEPT ![MI_MODE_REG] = mode, ![MI_INTR_REG] = pending,
                            ![MI_INTR_MASK_REG] = MI_INTR_MASK_DP],
            FreshVI, FALSE)

NextModeWrite ==
  /\ last.op = "construct"
  /\ \E value \in ModeWriteValues : MI_write32(MI_MODE_REG, value)

SpecModeWrite == InitModeWrite /\ [][NextModeWrite]_vars

\* the three mode flags: flag bit, CLR_f and SET_f bits
ModeFlags ==
  { [bit |-> MI_MODE_RDRAM, clr |-> MI_CLR_RDRAM, set |-> MI_SET_RDRAM],
    [bit |-> MI_MODE_INIT, clr |-> MI_CLR_INIT, set |-> MI_SET_INIT],
    [bit |-> MI_MODE_EBUS, clr |-> MI_CLR_EBUS, set |-> MI_SET_EBUS] }

IsModeWrite == last.op = "MI.write32" /\ last.ea = MI_MODE_REG /\ ~last.threw

\* C2: after a write of any value to the mode register, each mode flag is 0
\* if the value has its CLR bit (also when it has the SET bit: clear wins),
\* else 1 if the value has its SET bit, else what it was; the register holds
\* only these three flags afterwards, never the written value as such.
C2_ModeWriteClearWins ==
  IsModeWrite =>
    /\ \A f \in ModeFlags :
         BitOf(mi_reg[MI_MODE_REG], f.bit) =
           IF BitOf(last.value, f.clr) = 1 THEN 0
           ELSE IF BitOf(last.value, f.set) = 1 THEN 1
           ELSE BitOf(last.before, f.bit)
    /\ mi_reg[MI_MODE_REG] \in ModeFlagSets

\* a write with SET_INIT and CLR_INIT together has left INIT clear, and a
\* register content that is not the written value
C2_Witness ==
  /\ IsModeWrite
  /\ last.value = MI_SET_INIT + MI_CLR_INIT + MI_SET_RDRAM
  /\ BitOf(last.before, MI_MODE_INIT) = 1
  /\ mi_reg[MI_MODE_REG] = MI_MODE_RDRAM

(* ------------------------------------------------------------------ *)
(* Claims on the interrupt line, under SpecMI                          *)
(* ------------------------------------------------------------------ *)
IntrBits == {x.bit : x \in MaskSources}

\* C3: every operation that changes the value of (interruptPending AND
\* interruptMask) calls cpu0.updateCause3() before it returns, so that the
\* CPU's interrupt line as of its last notification is always
\* (interruptPending AND interruptMask) # 0.
C3_EveryChangeNotifies ==
  [][/\ BitAnd(mi_reg'[MI_INTR_MASK_REG], mi_reg'[MI_INTR_REG]) #
          BitAnd(mi_reg[MI_INTR_MASK_REG], mi_reg[MI_INTR_REG]) =>
            last'.notified >= 1
     /\ cause3' = interruptsUnmasked(mi_reg')]_vars

RaiseOps == {"interruptSP", "interruptDP", "verticalBlank"}

RaisedBit(op) ==
  IF op = "interruptSP" THEN MI_INTR_SP
  ELSE IF op = "interruptDP" THEN MI_INTR_DP
  ELSE MI_INTR_VI

\* C5: raising a source's interrupt (interruptSP, interruptDP, the VI raise
\* of the vertical blank) sets that source's pending bit, leaves every other
\* pending bit and the whole mask unchanged, and notifies the CPU exactly
\* once, whatever the mask and whether or not the bit was already set.
C5_RaiseSetsBitAndNotifiesOnce ==
  [][last'.op \in RaiseOps =>
       /\ \A b \in IntrBits :
            BitOf(mi_reg'[MI_INTR_REG], b) =
              IF b = RaisedBit(last'.op) THEN 1 ELSE BitOf(mi_reg[MI_INTR_REG], b)
       /\ mi_reg'[MI_INTR_REG] \div 64 = mi_reg[MI_INTR_REG] \div 64
       /\ mi_reg'[MI_INTR_MASK_REG] = mi_reg[MI_INTR_MASK_REG]
       /\ last'.notified = 1]_vars

\* SP raised while its mask bit is 0 and its pending bit was already set
C5_Witness ==
  /\ last.op = "interruptSP"
  /\ last.notified = 1
  /\ BitOf(last.before, MI_INTR_SP) = 1
  /\ BitOf(mi_reg[MI_INTR_MASK_REG], MI_INTR_MASK_SP) = 0
  /\ BitOf(mi_reg[MI_INTR_REG], MI_INTR_SP) = 1

IsViAck(op) == op.op = "VI.write32" /\ op.ea = VI_V_CURRENT_LINE_REG /\ ~op.threw

\* C6: a bus write of any value to the VI current-line register clears the
\* VI pending bit, leaves every other pending bit, the mask and the other MI
\* registers unchanged, has the CPU re-evaluate its interrupt line, and
\* stores nothing: the VI register block, the cycle counts, the field and the
\* event queue are unchanged.
C6_AckClearsOnlyViPending ==
  [][IsViAck(last') =>
       /\ \A b \in IntrBits :
            BitOf(mi_reg'[MI_INTR_REG], b) =
              IF b = MI_INTR_VI THEN 0 ELSE BitOf(mi_reg[MI_INTR_REG], b)
       /\ mi_reg'[MI_INTR_REG] \div 64 = mi_reg[MI_INTR_REG] \div 64
       /\ \A r \in MIRegs \ {MI_INTR_REG} : mi_reg'[r] = mi_reg[r]
       /\ last'.notified = 1
       /\ cause3' = interruptsUnmasked(mi_reg')
       /\ last'.scheduled = <<>>
       /\ UNCHANGED <<vi_reg, tvType, field, clock, refreshRate, countPerScanline,
                      countPerVbl, events>>]_vars

\* an acknowledge of value 5 with an event queued, SP pending and VI
\* unmasked: VI is no longer pending, SP still is, and 5 was not stored
C6_Witness ==
  /\ IsViAck(last)
  /\ last.value = 5
  /\ vi_reg[VI_V_CURRENT_LINE_REG] = 0
  /\ events # <<>>
  /\ mi_reg[MI_INTR_REG] = MI_INTR_SP
  /\ mi_reg[MI_INTR_MASK_REG] = MI_INTR_MASK_VI
  /\ ~cause3

(* ------------------------------------------------------------------ *)
(* SpecE2E: the first operations on a fresh MI controller: mask writes *)
(* of one SET_x or CLR_x bit, and raised interrupts                    *)
(* ------------------------------------------------------------------ *)
InitE2E == Constructed(OS_TV_NTSC, TRUE)

NextE2E ==
  /\ journal.on
  /\ Len(journal.ops) < MaxJournal
  /\ \/ \E x \in MaskSources : \E value \in {x.set, x.clr} :
          MI_write32(MI_INTR_MASK_REG, value)
     \/ \E x \in MaskSources : MI_setInterruptBit("setInterruptBit", x.bit)

SpecE2E == InitE2E /\ [][NextE2E]_vars

WroteMask(op, value) ==
  op.op = "MI.write32" /\ op.ea = MI_INTR_MASK_REG /\ op.value = value

Raised(op, bit) == op.op = "setInterruptBit" /\ op.value = bit

\* C4: on a fresh MI controller, for each source x, a mask write of SET_x
\* alone followed by raising x notifies the CPU exactly once in total and
\* interruptsUnmasked() is then true; a following mask write of CLR_x alone
\* makes interruptsUnmasked() false.
C4_EndToEnd ==
  \A x \in MaskSources :
    (/\ journal.on
     /\ Len(journal.ops) >= 2
     /\ WroteMask(journal.ops[1], x.set)
     /\ Raised(journal.ops[2], x.bit)) =>
       /\ journal.ops[1].notified + journal.ops[2].notified = 1
       /\ Len(journal.ops) = 2 => interruptsUnmasked(mi_reg)
       /\ (Len(journal.ops) = 3 /\ WroteMask(journal.ops[3], x.clr)) =>
            ~interruptsUnmasked(mi_reg)

\* SET_VI, raise VI, CLR_VI on a fresh controller: one notification, and the
\* line reports zero
C4_Witness ==
  /\ journal.on
  /\ Len(journal.ops) = 3
  /\ WroteMask(journal.ops[1], MI_INTR_MASK_SET_VI)
  /\ Raised(journal.ops[2], MI_INTR_VI)
  /\ WroteMask(journal.ops[3], MI_INTR_MASK_CLR_VI)
  /\ journal.ops[1].notified + journal.ops[2].notified = 1
  /\ mi_reg[MI_INTR_REG] = MI_INTR_VI
  /\ ~interruptsUnmasked(mi_reg)

(* ------------------------------------------------------------------ *)
(* Claims on the field parity and the unchanged vertical-sync write,   *)
(* under Spec                                                          *)
(* ------------------------------------------------------------------ *)
\* C7: the field parity is 0 whenever interlaced output is off: a vertical
\* blank that finds the control register's serrate bit clear leaves the
\* field at 0, whatever it was when interlace was switched off.
C7_FieldZeroWhenNotInterlaced ==
  (last.op = "verticalBlank" /\ interlaced(vi_reg) = 0) => field = 0

IsSyncWrite(op) == op.op = "VI.write32" /\ op.ea = VI_V_SYNC_REG /\ ~op.threw

\* C10: a write to the vertical-sync register of the value it already holds
\* changes nothing: no register, neither cycle count, no pending bit, and
\* the event queue is left alone (nothing is scheduled, also when no event
\* is pending).
C10_UnchangedSyncWriteIsNoOp ==
  [][(last'.op = "VI.write32" /\ last'.ea = VI_V_SYNC_REG
        /\ last'.value = vi_reg[VI_V_SYNC_REG]) =>
       /\ ~last'.threw
       /\ last'.scheduled = <<>>
       /\ last'.notified = 0
       /\ UNCHANGED <<mi_reg, vi_reg, tvType, field, clock, refreshRate,
                      countPerScanline, countPerVbl, events, cause3>>]_vars

\* 524 written over 524 while no event is pending: the counts are those of
\* the first write and still nothing is scheduled
C10_Witness ==
  /\ IsSyncWrite(last)
  /\ last.value = 524
  /\ last.before = 524
  /\ countPerScanline = 1545
  /\ events = <<>>
  /\ last.scheduled = <<>>

(* ------------------------------------------------------------------ *)
(* SpecSync: retiming under every television standard: vertical-sync   *)
(* and vertical-interrupt-line writes, with the vertical blank         *)
(* ------------------------------------------------------------------ *)
SyncValues == (0 .. MaxSmallSync) \cup {524, 624, 811363, 1000000}

InitSync == \E tv \in {OS_TV_PAL, OS_TV_NTSC, OS_TV_MPAL, 3} : Constructed(tv, FALSE)

NextSync ==
  \/ \E value \in SyncValues : VI_write32(VI_V_SYNC_REG, value)
  \/ \E value \in {0, 600} : VI_write32(VI_V_INTR_REG, value)
  \/ verticalBlank
  \/ runCycles(getVblCount(events))

SpecSync == InitSync /\ [][NextSync]_vars

\* the two cycle counts are those of the stored vertical-sync value V:
\* countPerScanline = floor((clock / refreshRate) / (V + 1)), stated as the
\* q with q * (V + 1) * refreshRate <= clock < (q + 1) * (V + 1) * refreshRate,
\* and countPerVbl = (V + 1) * countPerScanline
TimingMatchesSync ==
  LET scanlineCount == vi_reg[VI_V_SYNC_REG] + 1
  IN  /\ countPerScanline >= 0
      /\ countPerScanline * scanlineCount * refreshRate <= clock
      /\ clock < (countPerScanline + 1) * scanlineCount * refreshRate
      /\ countPerVbl = scanlineCount * countPerScanline

\* C8: a write to the vertical-sync register of a value V that differs from
\* the stored one stores V and leaves countPerScanline =
\* floor((clock / refreshRate) / (V + 1)) and countPerVbl = (V + 1) *
\* countPerScanline; and once the counts match the stored value they match
\* it in every later state.
C8_RetimingOnChangedSync ==
  [][/\ (IsSyncWrite(last') /\ last'.value # last'.before) =>
          (vi_reg'[VI_V_SYNC_REG] = last'.value /\ TimingMatchesSync')
     /\ TimingMatchesSync => TimingMatchesSync']_vars

\* PAL, 624 written over another value: 993130 / 625 = 1589.008
C8_Witness ==
  /\ tvType = OS_TV_PAL
  /\ IsSyncWrite(last)
  /\ last.value = 624
  /\ last.before # 624
  /\ vi_reg[VI_V_SYNC_REG] = 624
  /\ countPerScanline = 1589
  /\ countPerVbl = 993125

IsNtscSync524 ==
  tvType = OS_TV_NTSC /\ IsSyncWrite(last) /\ last.value = 524

\* C9 as stated: with NTSC (clock 48681812, refresh 60), writing 524 to the
\* vertical-sync register gives 525 scanlines, countPerScanline = 1546 and
\* countPerVbl = 525 * 1546.
C9_Ntsc524Gives1546 ==
  IsNtscSync524 =>
    /\ vi_reg[VI_V_SYNC_REG] + 1 = 525
    /\ countPerScanline = 1546
    /\ countPerVbl = 525 * 1546

\* C9 as amended: with NTSC, writing 524 to the vertical-sync register gives
\* 525 scanlines, countPerScanline = 1545 (48681812 / 60 / 525 = 1545.45) and
\* countPerVbl = 525 * 1545.
C9_Ntsc524Gives1545 ==
  IsNtscSync524 =>
    /\ clock = 48681812
    /\ refreshRate = 60
    /\ vi_reg[VI_V_SYNC_REG] + 1 = 525
    /\ countPerScanline = 1545
    /\ countPerVbl = 525 * 1545

\* NTSC, 524 written over another value
C9_Witness ==
  /\ IsNtscSync524
  /\ last.before # 524
  /\ countPerScanline = 1545
  /\ countPerVbl = 811125

(* ------------------------------------------------------------------ *)
(* Claims on arming the vertical-blank event, under Spec               *)
(* ------------------------------------------------------------------ *)
IsIntrWrite(op) == op.op = "VI.write32" /\ op.ea = VI_V_INTR_REG

\* a write that runs the arming decision: any write to the
\* vertical-interrupt-line register, a changed-value write to the
\* vertical-sync register
IsArmingWrite(op) ==
  \/ IsIntrWrite(op)
  \/ op.op = "VI.write32" /\ op.ea = VI_V_SYNC_REG /\ op.value # op.before

\* C11: a write to the vertical-interrupt-line register, and a changed-value
\* write to the vertical-sync register, raise no error and schedule a
\* vertical-blank event exactly if no event is pending and, with the value
\* stored, interrupt line < sync value; the delay is then countPerVbl as it
\* is after the write; otherwise the event queue is left unchanged.
C11_ArmsIffIdleAndBelowSync ==
  [][IsArmingWrite(last') =>
       /\ ~last'.threw
       /\ vi_reg'[last'.ea] = last'.value
       /\ IF events = <<>> /\ vi_reg'[VI_V_INTR_REG] < vi_reg'[VI_V_SYNC_REG]
          THEN last'.scheduled = <<countPerVbl'>> /\ events' = <<countPerVbl'>>
          ELSE last'.scheduled = <<>> /\ events' = events]_vars

\* a changed sync write, 524 over a stored interrupt line of 2 with no event
\* pending, has scheduled one event 811125 cycles out
C11_Witness ==
  /\ IsSyncWrite(last)
  /\ last.value = 524
  /\ last.before # 524
  /\ vi_reg[VI_V_INTR_REG] = 2
  /\ last.scheduled = <<811125>>
  /\ events = <<811125>>

\* C16: each vertical blank, whatever the interrupt-line and sync registers
\* hold, requests exactly one next vertical blank countPerVbl cycles out,
\* sets the VI bit of the MI pending register (other pending bits, the mask
\* and the other MI registers unchanged), notifies the CPU, and presents the
\* frame buffer exactly once; no VI register and no cycle count changes.
C16_VerticalBlankRearmsRaisesPresents ==
  [][last'.op = "verticalBlank" =>
       /\ last'.scheduled = <<countPerVbl>>
       /\ Len(events') = Len(events)
       /\ events'[Len(events')] = countPerVbl
       /\ \A b \in IntrBits :
            BitOf(mi_reg'[MI_INTR_REG], b) =
              IF b = MI_INTR_VI THEN 1 ELSE BitOf(mi_reg[MI_INTR_REG], b)
       /\ \A r \in MIRegs \ {MI_INTR_REG} : mi_reg'[r] = mi_reg[r]
       /\ last'.notified = 1
       /\ cause3' = interruptsUnmasked(mi_reg')
       /\ last'.presented = 1
       /\ UNCHANGED <<vi_reg, tvType, clock, refreshRate, countPerScanline,
                      countPerVbl>>]_vars

\* a vertical blank with the interrupt line (600) above the sync value (524)
\* has requested the next one, 811125 cycles out, and raised VI
C16_Witness ==
  /\ last.op = "verticalBlank"
  /\ vi_reg[VI_V_INTR_REG] = 600
  /\ vi_reg[VI_V_SYNC_REG] = 524
  /\ events = <<811125>>
  /\ last.presented = 1
  /\ BitOf(mi_reg[MI_INTR_REG], MI_INTR_VI) = 1

\* C17: with events that leave the queue when they fire, at most one
\* vertical-blank event is pending in every reachable state.
C17_AtMostOneEventPending == Len(events) <= 1

\* a write of the interrupt line below the sync value, made while an event
\* was pending, has scheduled nothing: one event is pending
C17_Witness ==
  /\ IsIntrWrite(last)
  /\ last.value = 2
  /\ vi_reg[VI_V_SYNC_REG] = 524
  /\ last.scheduled = <<>>
  /\ Len(events) = 1

\* C18: whenever the stored interrupt line is below the stored sync value, a
\* vertical-blank event is pending.
C18_ArmableIsArmed ==
  vi_reg[VI_V_INTR_REG] < vi_reg[VI_V_SYNC_REG] => events # <<>>

\* the sync write (524 under a line of 600) armed nothing; lowering the line
\* to 2 then armed the event
C18_Witness ==
  /\ IsIntrWrite(last)
  /\ last.value = 2
  /\ last.before = 600
  /\ vi_reg[VI_V_SYNC_REG] = 524
  /\ last.scheduled = <<811125>>
  /\ events = <<811125>>

(* ------------------------------------------------------------------ *)
(* Claim on the read-only MI registers, under SpecMI                   *)
(* ------------------------------------------------------------------ *)
IsReadOnlyWrite(op) ==
  op.op = "MI.write32" /\ op.ea \in {MI_VERSION_REG, MI_INTR_REG}

\* C14: a bus write of any value to the MI version register or to the MI
\* interrupt-pending register is ignored: no MI register changes, no error is
\* raised, the CPU is not notified, and nothing else changes; so the version
\* register holds 0x02020102 in every state, and no bus write to the pending
\* register's address changes the pending register.
C14_ReadOnlyWritesIgnored ==
  [][/\ IsReadOnlyWrite(last') =>
          /\ ~last'.threw
          /\ last'.notified = 0
          /\ UNCHANGED <<mi_reg, cause3, viVars, events>>
     /\ mi_reg[MI_VERSION_REG] = MI_VERSION_VALUE
     /\ mi_reg'[MI_VERSION_REG] = MI_VERSION_VALUE]_vars

\* 5 written to the pending register while SP and VI are pending: they
\* still are, and the version is the reset pattern
C14_Witness ==
  /\ IsReadOnlyWrite(last)
  /\ last.ea = MI_INTR_REG
  /\ last.value = 5
  /\ last.before = MI_INTR_SP + MI_INTR_VI
  /\ mi_reg[MI_INTR_REG] = MI_INTR_SP + MI_INTR_VI
  /\ mi_reg[MI_VERSION_REG] = MI_VERSION_VALUE

(* ------------------------------------------------------------------ *)
(* SpecRead: bus reads, under every television standard, while the     *)
(* vertical-sync value changes with or without an event pending        *)
(* ------------------------------------------------------------------ *)
ReadSyncValues == {1, 524, 499999}

\* the current-line and the vertical-sync register, an offset whose word
\* reaches beyond the block, and the first offset after the block
VIReadAddresses ==
  {VI_V_CURRENT_LINE_REG, VI_V_SYNC_REG, VI_REG_LENGTH - 2, VI_REG_LENGTH}

InitRead == \E tv \in {OS_TV_PAL, OS_TV_NTSC, OS_TV_MPAL, 3} : Constructed(tv, FALSE)

NextRead ==
  \/ \E value \in ReadSyncValues : VI_write32(VI_V_SYNC_REG, value)
  \/ \E value \in {0, 600} : VI_write32(VI_V_INTR_REG, value)
  \/ VI_write32(VI_CONTROL_REG, VI_CTRL_SERRATE_ON)
  \/ VI_write32(VI_REG_LENGTH, 5)
  \/ \E ea \in VIReadAddresses : VI_readS32(ea)
  \/ MI_write32(MI_REG_LENGTH, 5)
  \/ \E ea \in {MI_INTR_REG, MI_REG_LENGTH} : MI_readS32(ea)
  \/ verticalBlank
  \/ \E d \in CycleSteps(events) : runCycles(d)

SpecRead == InitRead /\ [][NextRead]_vars

IsOutOfRange(op) ==
  \/ op.op \in {"VI.write32", "VI.readS32"} /\ op.ea + 4 > VI_REG_LENGTH
  \/ op.op \in {"MI.write32", "MI.readS32"} /\ op.ea + 4 > MI_REG_LENGTH

\* C12: a 32-bit read or write on the VI or the MI controller at an offset o
\* with o + 4 beyond the length of the register block throws and changes
\* nothing: no register of either controller, no cycle count, not the field,
\* not the event queue, and the CPU is not notified.
C12_OutOfRangeAccessThrows ==
  [][IsOutOfRange(last') =>
       /\ last'.threw
       /\ last'.notified = 0
       /\ last'.scheduled = <<>>
       /\ UNCHANGED <<mi_reg, vi_reg, tvType, field, clock, refreshRate,
                      countPerScanline, countPerVbl, events, cause3>>]_vars

\* a read at two bytes before the end of the VI block, with an event pending
\* and VI raised, threw
C12_Witness ==
  /\ last.op = "VI.readS32"
  /\ last.ea = VI_REG_LENGTH - 2
  /\ last.threw
  /\ events # <<>>
  /\ mi_reg[MI_INTR_REG] = MI_INTR_VI

ClockOfStandard ==
  /\ tvType = OS_TV_PAL => clock = 49656530 /\ refreshRate = 50
  /\ tvType = OS_TV_NTSC => clock = 48681812 /\ refreshRate = 60
  /\ tvType = OS_TV_MPAL => clock = 48628316 /\ refreshRate = 60
  /\ tvType \notin {OS_TV_PAL, OS_TV_NTSC, OS_TV_MPAL} =>
       clock = 48681812 /\ refreshRate = 60

\* C13: in every state after construction the clock is 49656530 for PAL,
\* 48681812 for NTSC and 48628316 for MPAL, the refresh rate 50 for PAL and
\* 60 otherwise, and an unrecognized standard has the NTSC clock and 60; no
\* bus read, bus write or vertical blank changes either.
C13_ClockAndRefreshFixed ==
  [][/\ ClockOfStandard
     /\ ClockOfStandard'
     /\ UNCHANGED <<clock, refreshRate>>]_vars

\* MPAL after a changed sync write, a vertical blank and a current-line read
C13_Witness ==
  /\ tvType = OS_TV_MPAL
  /\ clock = 48628316
  /\ refreshRate = 60
  /\ last.op = "VI.readS32"
  /\ last.ea = VI_V_CURRENT_LINE_REG
  /\ BitOf(mi_reg[MI_INTR_REG], MI_INTR_VI) = 1
  /\ countPerScanline = 1543

IsCurrentLineRead(op) ==
  op.op = "VI.readS32" /\ op.ea = VI_V_CURRENT_LINE_REG /\ ~op.threw

\* the current line as the floor of the quotient, wrapped once and with the
\* field in bit 0
FloorLine(ev, vi, f, perScanline, perVbl) ==
  LET s == (perVbl - getVblCount(ev)) \div perScanline
      sync == vi[VI_V_SYNC_REG]
      wrapped == IF s >= sync THEN s - sync ELSE s
  IN  (wrapped - (wrapped % 2)) + f

\* C15: every read of the current-line register with countPerScanline > 0
\* returns s = floor((countPerVbl - cycles to the next vertical blank) /
\* countPerScanline), less the sync value once if s >= the sync value, with
\* bit 0 replaced by the field; the register holds the returned value
\* afterwards, and nothing else changes.
C15_ReadReturnsFloorLine ==
  [][(IsCurrentLineRead(last') /\ countPerScanline > 0) =>
       /\ last'.result = FloorLine(events, vi_reg, field, countPerScanline, countPerVbl)
       /\ last'.result % 2 = field
       /\ vi_reg' = [vi_reg EXCEPT ![VI_V_CURRENT_LINE_REG] = last'.result]
       /\ UNCHANGED <<mi_reg, tvType, field, clock, refreshRate, countPerScanline,
                      countPerVbl, events, cause3>>]_vars

\* C20: whenever a vertical-blank event is pending, a read of the
\* current-line register returns a value v with 0 <= v <= the sync value.
C20_CurrentLineWithinFrame ==
  (IsCurrentLineRead(last) /\ events # <<>>) =>
    (0 <= last.result /\ last.result <= vi_reg[VI_V_SYNC_REG])

(* ------------------------------------------------------------------ *)
(* SpecLive: the vertical blank under a CPU that keeps executing: it   *)
(* always runs on to the next queued event, and calls back an event    *)
(* that is due                                                         *)
(* ------------------------------------------------------------------ *)
NextLive ==
  \/ \E value \in {2, 524} : VI_write32(VI_V_SYNC_REG, value)
  \/ \E value \in {0, 600} : VI_write32(VI_V_INTR_REG, value)
  \/ VI_write32(VI_V_CURRENT_LINE_REG, 0)
  \/ verticalBlank
  \/ runCycles(getVblCount(events))

SpecLive ==
  /\ Init
  /\ [][NextLive]_vars
  /\ WF_vars(verticalBlank)
  /\ WF_vars(runCycles(getVblCount(events)))

Armed == events # <<>>

VblFired == last.op = "verticalBlank" /\ BitOf(mi_reg[MI_INTR_REG], MI_INTR_VI) = 1

\* C19: once a vertical-blank event is armed it stays armed: no bus write
\* (also one that makes the interrupt line >= the sync value) removes it and
\* every vertical blank re-arms it; so, with a CPU that keeps executing and
\* countPerVbl > 0, the vertical blank fires, and raises the VI pending bit,
\* infinitely often.
C19_ArmedStaysArmedAndFiresForever ==
  /\ [][Armed => Armed']_vars
  /\ [](Armed => countPerVbl > 0)
  /\ <>Armed => []<>VblFired

\* a vertical blank that found VI still pending from an earlier one, with the
\* interrupt line raised to 600 over a sync value of 2 after arming
C19_Witness ==
  /\ last.op = "verticalBlank"
  /\ BitOf(last.before, MI_INTR_VI) = 1
  /\ vi_reg[VI_V_INTR_REG] = 600
  /\ vi_reg[VI_V_SYNC_REG] = 2
  /\ countPerVbl > 0
  /\ events = <<countPerVbl>>

====
